---- MODULE Spec2Model ----
(***************************************************************************)
(* A model of the VAE sampling driver (sample.py) and of the shape         *)
(* arithmetic of the convolutional Encoder / Decoder                       *)
(* (models/simple_cnn.py).                                                 *)
(*                                                                         *)
(*   Spec          the sampling driver, one run of main() per process      *)
(*   SpecNet       Encoder.forward / Decoder.forward on tensor shapes      *)
(*   SpecAmortize  the batching helper amortize(N, B)                      *)
(*                                                                         *)
(* Tensors of the driver hold exact rationals (a record [n, d] in lowest   *)
(* terms); the pseudo random generator is a small seeded generator, as     *)
(* set_seed makes every run a deterministic function of --seed.            *)
(***************************************************************************)
EXTENDS Integers, Sequences, FiniteSets, TLC

VARIABLES
    args,       \* the parsed command line (argparse Namespace)
    conf,       \* the merged configuration: [z_dim |-> conf.encoder.params.z_dim]
    ckpt,       \* the checkpoint file: which state dicts fit the constructed modules
    num_processes,  \* accelerator.num_processes
    pc,         \* pc[p]: position of process p in main()
    failure,    \* failure[p]: the place an exception ended process p ("none" if it did not)
    arrived,    \* arrived[b]: processes that reached accelerator.wait_for_everyone() at line b
    loaded,     \* loaded[p]: modules whose state dict process p has loaded
    called,     \* called[p]: generation procedures process p has called
    rng,        \* rng[p]: state of the process's random generator
    idx,        \* idx[p]: the local variable idx of the running procedure
    folds,      \* folds[p]: batch sizes still to be iterated
    samples,    \* samples[p]: decoded items of the current batch still to be saved
    drawn,      \* drawn[p]: the latents torch.randn returned, one record per sample
    dirs,       \* processes that created the save directory
    files,      \* the save directory: file index -> image grid
    writes,     \* the save_image calls so far, in order: [idx, by]
    net,        \* SpecNet: the last forward call and its result
    am          \* SpecAmortize: the last amortize call and its result

vars == <<args, conf, ckpt, num_processes, pc, failure, arrived, loaded, called, rng, idx, folds,
          samples, drawn, dirs, files, writes, net, am>>

driverVars == <<args, conf, ckpt, num_processes, pc, failure, arrived, loaded, called, rng, idx, folds,
                samples, drawn, dirs, files, writes>>

-----------------------------------------------------------------------------
(* Bounds of the model *)

MaxProcs == 2
MaxSamples == 5
MaxBatch == 2
MaxFrames == 3
MaxRange == 2
MaxSeed == 1
ZDim == 2
MaxMults == 5
MaxNetBatch == 2
MaxAmortizeN == 12
MaxAmortizeB == 9

-----------------------------------------------------------------------------
(* Exact rational arithmetic for tensor elements *)

Abs(x) == IF x < 0 THEN -x ELSE x

RECURSIVE GCD(_, _)
GCD(a, b) == IF b = 0 THEN a ELSE GCD(b, a % b)

Rat(n, d) ==
    LET g == GCD(Abs(n), Abs(d))
        s == IF d < 0 THEN -1 ELSE 1
    IN  [n |-> (s * n) \div g, d |-> (s * d) \div g]

IntRat(i) == [n |-> i, d |-> 1]
RAdd(x, y) == Rat(x.n * y.d + y.n * x.d, x.d * y.d)
RSub(x, y) == Rat(x.n * y.d - y.n * x.d, x.d * y.d)
RMul(x, y) == Rat(x.n * y.n, x.d * y.d)
RDivInt(x, k) == Rat(x.n, x.d * k)

Min(a, b) == IF a < b THEN a ELSE b
CeilDiv(a, b) == (a + b - 1) \div b

\* torch.linspace(start, end, steps): one point is start alone; otherwise
\* step = (end - start) / (steps - 1), the lower half counted up from start
\* and the upper half counted down from end.
Linspace(start, end, steps) ==
    IF steps = 1 THEN << start >>
    ELSE LET step == RDivInt(RSub(end, start), steps - 1)
         IN  [i \in 1..steps |->
                 IF 2 * (i - 1) < steps
                 THEN RAdd(start, RMul(IntRat(i - 1), step))
                 ELSE RSub(end, RMul(IntRat(steps - i), step))]

-----------------------------------------------------------------------------
(* The command line *)

Choices == {"sample", "interpolate", "traverse"}

\* The namespaces get_parser() accepts or rejects: --mode is any string, the
\* option of the mode that is not requested keeps one fixed value, and
\* --traverse_dim takes the first and last index of either sign and the
\* nearest index out of range on either side.
ArgSpace ==
    { a \in [mode : Choices \cup {"bogus"},
             seed : 0..MaxSeed,
             n_samples : 0..MaxSamples,
             batch_size : 0..MaxBatch,
             n_interpolate : 1..MaxFrames,
             n_traverse : 1..MaxFrames,
             traverse_range : 1..MaxRange,
             traverse_dim : {-(ZDim + 1), -ZDim, -1, 0, ZDim - 1, ZDim}] :
        /\ a.mode # "interpolate" => a.n_interpolate = 1
        /\ a.mode # "traverse" =>
              /\ a.n_traverse = 1
              /\ a.traverse_range = 1
              /\ a.traverse_dim = 0
        /\ a.mode = "bogus" => a.n_samples = 1 /\ a.batch_size = 1 /\ a.seed = 0 }

Procs == 0..(num_processes - 1)

\* accelerator.is_main_process
IsMainProcess(p) == p = 0

Barriers == {77, 92, 107}

NoFailure == [at |-> "none", names |-> ""]

-----------------------------------------------------------------------------
(* The random generator *)

\* One step of the generator, and the state after k steps.
RngStep(s) == (5 * s + 3) % 16

RECURSIVE RngAdvance(_, _)
RngAdvance(s, k) == IF k = 0 THEN s ELSE RngAdvance(RngStep(s), k - 1)

\* The k-th value the generator in state s will return.
RngValue(s, k) == (RngAdvance(s, k) \div 4) - 1

\* accelerate.utils.set_seed(seed, device_specific=True): the seed is offset
\* by the process index.
SetSeedState(seed, p) == (seed + p) % 16

\* torch.randn((rows, cols)): filled in row-major order.
Randn(s, rows, cols) ==
    [r \in 1..rows |-> [c \in 1..cols |-> IntRat(RngValue(s, (r - 1) * cols + c))]]

-----------------------------------------------------------------------------
(* The batching helper and the image writer *)

\* A variant of amortize that appends the remainder chunk even when it is empty.
AmortizeKeepsEmptyRemainder(n, b) ==
    IF b <= 0 THEN [ok |-> FALSE, sizes |-> << >>]
    ELSE [ok |-> TRUE, sizes |-> [i \in 1..(n \div b) |-> b] \o << n % b >>]

\* amortize(n_samples, batch_size): full chunks of batch_size, then the
\* remainder if there is one; fails for a batch size that is not positive.
Amortize(n, b) ==
    IF b <= 0 THEN [ok |-> FALSE, sizes |-> << >>]
    ELSE LET k == n \div b
             r == n % b
         IN  [ok |-> TRUE,
              sizes |-> [i \in 1..k |-> b] \o (IF r = 0 THEN << >> ELSE << r >>)]

\* decoder(z) in evaluation mode, one latent row: the image is a function of
\* the row alone.
Decode(row) == [latent |-> row]

\* torchvision make_grid as save_image calls it: the panels of x laid out
\* nrow to a row of the grid.
MakeGrid(x, nrow) ==
    LET nmaps == Len(x)
        xmaps == Min(nrow, nmaps)
    IN  [panels |-> x, ncols |-> xmaps, nrows |-> CeilDiv(nmaps, xmaps)]

\* save_image(x, os.path.join(save_dir, f'{i}.png'), nrow=nrow, ...): the
\* file is created or overwritten.
SaveImage(x, i, nrow) ==
    [k \in DOMAIN files \cup {i} |-> IF k = i THEN MakeGrid(x, nrow) ELSE files[k]]

-----------------------------------------------------------------------------
(* main(), one copy per process *)

Init ==
    /\ args \in ArgSpace
    /\ conf = [z_dim |-> ZDim]
    /\ ckpt \in [encoder : {"ok", "mismatch"}, decoder : {"ok", "mismatch"}]
    /\ num_processes \in 1..MaxProcs
    /\ pc = [p \in Procs |-> "Uninitialized"]
    /\ failure = [p \in Procs |-> NoFailure]
    /\ arrived = [b \in Barriers |-> {}]
    /\ loaded = [p \in Procs |-> {}]
    /\ called = [p \in Procs |-> {}]
    /\ rng = [p \in Procs |-> 0]
    /\ idx = [p \in Procs |-> 0]
    /\ folds = [p \in Procs |-> << >>]
    /\ samples = [p \in Procs |-> << >>]
    /\ drawn = [p \in Procs |-> << >>]
    /\ dirs = {}
    /\ files = << >>
    /\ writes = << >>
    /\ net = [op |-> "none"]
    /\ am = [op |-> "none"]

Fail(p, at, names) ==
    /\ pc' = [pc EXCEPT ![p] = "Failed"]
    /\ failure' = [failure EXCEPT ![p] = [at |-> at, names |-> names]]

Arrive(b, p) == arrived' = [arrived EXCEPT ![b] = @ \cup {p}]

\* accelerator.wait_for_everyone() at line b lets a process through once
\* every process has reached it.
PassBarrier(b) == arrived[b] = Procs

\* A variant of the parser without choices=[...] on --mode.
ParseArgsAnyMode(p) ==
    /\ pc[p] = "Uninitialized"
    /\ pc' = [pc EXCEPT ![p] = "AtBarrier77"]
    /\ Arrive(77, p)
    /\ UNCHANGED <<args, conf, ckpt, num_processes, failure, loaded, called, rng, idx,
                   folds, samples, drawn, dirs, files, writes, net, am>>

\* Lines 67-77: parse_known_args() rejects a --mode outside choices and exits;
\* otherwise the process goes on to the first barrier.
ParseArgs(p) ==
    /\ pc[p] = "Uninitialized"
    /\ IF args.mode \in Choices
       THEN /\ pc' = [pc EXCEPT ![p] = "AtBarrier77"]
            /\ Arrive(77, p)
            /\ UNCHANGED failure
       ELSE /\ Fail(p, "parse_args", args.mode)
            /\ UNCHANGED arrived
    /\ UNCHANGED <<args, conf, ckpt, num_processes, loaded, called, rng, idx, folds,
                   samples, drawn, dirs, files, writes, net, am>>

\* Lines 77-92: past the first barrier, seed the generators, reach the second.
SetSeed(p) ==
    /\ pc[p] = "AtBarrier77"
    /\ PassBarrier(77)
    /\ rng' = [rng EXCEPT ![p] = SetSeedState(args.seed, p)]
    /\ pc' = [pc EXCEPT ![p] = "AtBarrier92"]
    /\ Arrive(92, p)
    /\ UNCHANGED <<args, conf, ckpt, num_processes, failure, loaded, called, idx, folds,
                   samples, drawn, dirs, files, writes, net, am>>

\* Lines 92-97: past the second barrier, construct encoder and decoder; the
\* weight initialisation of each draws from the generator.
BuildModels(p) ==
    /\ pc[p] = "AtBarrier92"
    /\ PassBarrier(92)
    /\ rng' = [rng EXCEPT ![p] = RngAdvance(@, 2)]
    /\ pc' = [pc EXCEPT ![p] = "ModelsBuilt"]
    /\ UNCHANGED <<args, conf, ckpt, num_processes, failure, arrived, loaded, called, idx,
                   folds, samples, drawn, dirs, files, writes, net, am>>

\* A variant that loads with strict=False and no shape check.
LoadWeightsNotStrict(p) ==
    /\ pc[p] = "ModelsBuilt"
    /\ loaded' = [loaded EXCEPT ![p] = {"encoder", "decoder"}]
    /\ pc' = [pc EXCEPT ![p] = "WeightsLoaded"]
    /\ Arrive(107, p)
    /\ UNCHANGED <<args, conf, ckpt, num_processes, failure, called, rng, idx, folds,
                   samples, drawn, dirs, files, writes, net, am>>

\* Lines 100-107: load_state_dict of the encoder, then of the decoder; either
\* raises when the checkpoint does not fit. Then the third barrier.
LoadWeights(p) ==
    /\ pc[p] = "ModelsBuilt"
    /\ IF ckpt.encoder # "ok"
       THEN /\ Fail(p, "load_encoder", ckpt.encoder)
            /\ UNCHANGED <<loaded, arrived>>
       ELSE IF ckpt.decoder # "ok"
       THEN /\ loaded' = [loaded EXCEPT ![p] = {"encoder"}]
            /\ Fail(p, "load_decoder", ckpt.decoder)
            /\ UNCHANGED arrived
       ELSE /\ loaded' = [loaded EXCEPT ![p] = {"encoder", "decoder"}]
            /\ pc' = [pc EXCEPT ![p] = "WeightsLoaded"]
            /\ Arrive(107, p)
            /\ UNCHANGED failure
    /\ UNCHANGED <<args, conf, ckpt, num_processes, called, rng, idx, folds,
                   samples, drawn, dirs, files, writes, net, am>>

\* A variant without the decorator: the body runs on every process.
OnEveryProcess(p) == TRUE

\* @accelerator.on_main_process: the decorated body runs on the main process
\* only, any other process returns from the call at once.
OnMainProcess(p) == IsMainProcess(p)

\* Lines 112-114 (and 128-130, 148-150): idx = 0, makedirs, amortize.
EnterProcedure(p) ==
    LET f == Amortize(args.n_samples, args.batch_size)
    IN  /\ idx' = [idx EXCEPT ![p] = 0]
        /\ dirs' = dirs \cup {p}
        /\ IF f.ok
           THEN /\ folds' = [folds EXCEPT ![p] = f.sizes]
                /\ pc' = [pc EXCEPT ![p] = "Sampling"]
                /\ UNCHANGED failure
           ELSE /\ Fail(p, "amortize", "batch_size")
                /\ UNCHANGED folds

\* Lines 107-114 and 166-175: past the third barrier, call the procedure the
\* mode names; any other mode raises ValueError.
Dispatch(p) ==
    /\ pc[p] = "WeightsLoaded"
    /\ PassBarrier(107)
    /\ IF args.mode \in {"sample", "interpolate", "traverse"}
       THEN /\ called' = [called EXCEPT ![p] = @ \cup {args.mode}]
            /\ IF OnMainProcess(p)
               THEN EnterProcedure(p)
               ELSE /\ pc' = [pc EXCEPT ![p] = "Sampling"]
                    /\ UNCHANGED <<idx, dirs, folds, failure>>
       ELSE /\ Fail(p, "dispatch", args.mode)
            /\ UNCHANGED <<called, idx, dirs, folds>>
    /\ UNCHANGED <<args, conf, ckpt, num_processes, arrived, loaded, rng,
                   samples, drawn, files, writes, net, am>>

\* The record of one save_image call.
Written(p) == Append(writes, [idx |-> idx[p], by |-> p])

\* Process p is inside the body of procedure f.
Running(p, f) == pc[p] = "Sampling" /\ f \in called[p]

\* The head of folds becomes the batch size bs of the iteration.
NextFold(p) ==
    /\ samples[p] = << >>
    /\ folds[p] # << >>

\* A variant of the loop of sample() that starts idx again with every batch.
SampleBatchResetsIdx(p) ==
    /\ pc[p] = "Sampling" /\ "sample" \in called[p]
    /\ samples[p] = << >>
    /\ folds[p] # << >>
    /\ LET bs == Head(folds[p])
           z == Randn(rng[p], bs, conf.z_dim)
       IN  /\ samples' = [samples EXCEPT ![p] = [i \in 1..bs |-> << Decode(z[i]) >>]]
           /\ drawn' = [drawn EXCEPT ![p] = @ \o [i \in 1..bs |-> << z[i] >>]]
           /\ rng' = [rng EXCEPT ![p] = RngAdvance(@, bs * conf.z_dim)]
    /\ folds' = [folds EXCEPT ![p] = Tail(@)]
    /\ idx' = [idx EXCEPT ![p] = 0]
    /\ UNCHANGED <<args, conf, ckpt, num_processes, pc, failure, arrived, loaded, called,
                   dirs, files, writes, net, am>>

\* Lines 115-117 of sample(): z = randn((bs, z_dim)); samples = decoder(z).
SampleBatch(p) ==
    /\ Running(p, "sample")
    /\ NextFold(p)
    /\ LET bs == Head(folds[p])
           z == Randn(rng[p], bs, conf.z_dim)
       IN  /\ samples' = [samples EXCEPT ![p] = [i \in 1..bs |-> << Decode(z[i]) >>]]
           /\ drawn' = [drawn EXCEPT ![p] = @ \o [i \in 1..bs |-> << z[i] >>]]
           /\ rng' = [rng EXCEPT ![p] = RngAdvance(@, bs * conf.z_dim)]
    /\ folds' = [folds EXCEPT ![p] = Tail(@)]
    /\ UNCHANGED <<args, conf, ckpt, num_processes, pc, failure, arrived, loaded, called,
                   idx, dirs, files, writes, net, am>>

\* Lines 118-123 of sample(): one image per file, then idx += 1.
SampleSave(p) ==
    /\ Running(p, "sample")
    /\ samples[p] # << >>
    /\ files' = SaveImage(Head(samples[p]), idx[p], 1)
    /\ writes' = Written(p)
    /\ idx' = [idx EXCEPT ![p] = @ + 1]
    /\ samples' = [samples EXCEPT ![p] = Tail(@)]
    /\ UNCHANGED <<args, conf, ckpt, num_processes, pc, failure, arrived, loaded, called,
                   rng, folds, drawn, dirs, net, am>>

\* z1 * t + z2 * (1 - t) on one latent row.
Lerp(r1, r2, t) ==
    [c \in 1..Len(r1) |-> RAdd(RMul(r1[c], t), RMul(r2[c], RSub(IntRat(1), t)))]

\* A variant with the two latents exchanged: z2 * t + z1 * (1 - t).
InterpolateFramesSwapped(z1, z2, n) ==
    LET ts == Linspace(IntRat(0), IntRat(1), n)
    IN  [i \in 1..Len(z1) |-> [j \in 1..n |-> Decode(Lerp(z2[i], z1[i], ts[j]))]]

\* Lines 134-137: decoder(z1 * t + z2 * (1 - t)) for t in linspace(0, 1, n),
\* stacked along dim 1: item i holds its n frames in the order of t.
InterpolateFrames(z1, z2, n) ==
    LET ts == Linspace(IntRat(0), IntRat(1), n)
        perT == [j \in 1..n |-> [i \in 1..Len(z1) |-> Decode(Lerp(z1[i], z2[i], ts[j]))]]
    IN  [i \in 1..Len(z1) |-> [j \in 1..n |-> perT[j][i]]]

\* Lines 131-137 of interpolate().
InterpolateBatch(p) ==
    /\ Running(p, "interpolate")
    /\ NextFold(p)
    /\ LET bs == Head(folds[p])
           z1 == Randn(rng[p], bs, conf.z_dim)
           z2 == Randn(RngAdvance(rng[p], bs * conf.z_dim), bs, conf.z_dim)
       IN  /\ samples' = [samples EXCEPT ![p] = InterpolateFrames(z1, z2, args.n_interpolate)]
           /\ drawn' = [drawn EXCEPT ![p] = @ \o [i \in 1..bs |-> << z1[i], z2[i] >>]]
           /\ rng' = [rng EXCEPT ![p] = RngAdvance(@, 2 * bs * conf.z_dim)]
    /\ folds' = [folds EXCEPT ![p] = Tail(@)]
    /\ UNCHANGED <<args, conf, ckpt, num_processes, pc, failure, arrived, loaded, called,
                   idx, dirs, files, writes, net, am>>

\* A variant that advances idx once per frame.
InterpolateSavePerFrame(p) ==
    /\ pc[p] = "Sampling" /\ "interpolate" \in called[p]
    /\ samples[p] # << >>
    /\ files' = SaveImage(Head(samples[p]), idx[p], Len(Head(samples[p])))
    /\ writes' = Written(p)
    /\ idx' = [idx EXCEPT ![p] = @ + Len(Head(samples[p]))]
    /\ samples' = [samples EXCEPT ![p] = Tail(@)]
    /\ UNCHANGED <<args, conf, ckpt, num_processes, pc, failure, arrived, loaded, called,
                   rng, folds, drawn, dirs, net, am>>

\* Lines 138-143 of interpolate(): the frames of one sample in one file,
\* nrow = len(x), then idx += 1.
InterpolateSave(p) ==
    /\ Running(p, "interpolate")
    /\ samples[p] # << >>
    /\ files' = SaveImage(Head(samples[p]), idx[p], Len(Head(samples[p])))
    /\ writes' = Written(p)
    /\ idx' = [idx EXCEPT ![p] = @ + 1]
    /\ samples' = [samples EXCEPT ![p] = Tail(@)]
    /\ UNCHANGED <<args, conf, ckpt, num_processes, pc, failure, arrived, loaded, called,
                   rng, folds, drawn, dirs, net, am>>

\* Indexing a dimension of size n with d: negative d counts from the end,
\* 0 stands for an index out of range (IndexError).
IndexOf(d, n) ==
    IF 0 <= d /\ d < n THEN d + 1
    ELSE IF -n <= d /\ d < 0 THEN d + n + 1
    ELSE 0

\* A variant whose assignment z[:, :, :k] = lin also covers the coordinates
\* before k.
TraverseLatentsClobber(base, n, lin, k) ==
    [i \in 1..Len(base) |->
        [j \in 1..n |->
            [c \in 1..Len(base[i]) |-> IF c <= k THEN lin[j] ELSE base[i][c]]]]

\* Lines 152-155: every base row repeated n times, then z[:, :, k] = lin.
TraverseLatents(base, n, lin, k) ==
    LET z == [i \in 1..Len(base) |-> [j \in 1..n |-> base[i]]]
    IN  [i \in 1..Len(base) |->
            [j \in 1..n |->
                [c \in 1..Len(base[i]) |-> IF c = k THEN lin[j] ELSE z[i][j][c]]]]

\* Lines 156-158: reshape to [bs * n, z_dim], decode, reshape to [bs, n, ...].
TraverseDecode(z, bs, n) ==
    LET flat == [m \in 1..(bs * n) |-> z[((m - 1) \div n) + 1][((m - 1) % n) + 1]]
        dec == [m \in 1..(bs * n) |-> Decode(flat[m])]
    IN  [i \in 1..bs |-> [j \in 1..n |-> dec[(i - 1) * n + j]]]

\* Lines 151-158 of traverse().
TraverseBatch(p) ==
    /\ Running(p, "traverse")
    /\ NextFold(p)
    /\ LET bs == Head(folds[p])
           n == args.n_traverse
           base == Randn(rng[p], bs, conf.z_dim)
           lin == Linspace(IntRat(-args.traverse_range), IntRat(args.traverse_range), n)
           k == IndexOf(args.traverse_dim, conf.z_dim)
       IN  /\ rng' = [rng EXCEPT ![p] = RngAdvance(@, bs * conf.z_dim)]
           /\ IF k = 0
              THEN /\ Fail(p, "traverse_dim", "IndexError")
                   /\ UNCHANGED <<samples, drawn>>
              ELSE /\ samples' = [samples EXCEPT ![p] =
                                     TraverseDecode(TraverseLatents(base, n, lin, k), bs, n)]
                   /\ drawn' = [drawn EXCEPT ![p] = @ \o [i \in 1..bs |-> << base[i] >>]]
                   /\ UNCHANGED <<pc, failure>>
    /\ folds' = [folds EXCEPT ![p] = Tail(@)]
    /\ UNCHANGED <<args, conf, ckpt, num_processes, arrived, loaded, called,
                   idx, dirs, files, writes, net, am>>

\* Lines 159-164 of traverse().
TraverseSave(p) ==
    /\ Running(p, "traverse")
    /\ samples[p] # << >>
    /\ files' = SaveImage(Head(samples[p]), idx[p], Len(Head(samples[p])))
    /\ writes' = Written(p)
    /\ idx' = [idx EXCEPT ![p] = @ + 1]
    /\ samples' = [samples EXCEPT ![p] = Tail(@)]
    /\ UNCHANGED <<args, conf, ckpt, num_processes, pc, failure, arrived, loaded, called,
                   rng, folds, drawn, dirs, net, am>>

\* Lines 176-177: the call returned (the loop over folds is exhausted, or
\* the body was skipped); main() ends.
Return(p) ==
    /\ pc[p] = "Sampling"
    /\ folds[p] = << >>
    /\ samples[p] = << >>
    /\ pc' = [pc EXCEPT ![p] = "Done"]
    /\ UNCHANGED <<args, conf, ckpt, num_processes, failure, arrived, loaded, called, rng,
                   idx, folds, samples, drawn, dirs, files, writes, net, am>>

Next ==
    \/ \E p \in Procs : ParseArgs(p)
    \/ \E p \in Procs : SetSeed(p)
    \/ \E p \in Procs : BuildModels(p)
    \/ \E p \in Procs : LoadWeights(p)
    \/ \E p \in Procs : Dispatch(p)
    \/ \E p \in Procs : SampleBatch(p)
    \/ \E p \in Procs : SampleSave(p)
    \/ \E p \in Procs : InterpolateBatch(p)
    \/ \E p \in Procs : InterpolateSave(p)
    \/ \E p \in Procs : TraverseBatch(p)
    \/ \E p \in Procs : TraverseSave(p)
    \/ \E p \in Procs : Return(p)

Spec == Init /\ [][Next]_vars

-----------------------------------------------------------------------------
(* Properties of the driver *)

Main == CHOOSE p \in Procs : IsMainProcess(p)

Finished == pc[Main] = "Done"

\* The file indices of the save_image calls are 0, 1, 2, ... in this order.
WritesCountUp == \A k \in 1..Len(writes) : writes[k].idx = k - 1

\* C1: in mode sample a run that reaches Done has written exactly n_samples
\* files, with the indices 0..n_samples-1, each once and in increasing order;
\* the index runs on across batches, and every file holds one image.
C1_SampleWritesEachIndexOnce ==
    args.mode = "sample" =>
        /\ WritesCountUp
        /\ \A i \in DOMAIN files : Len(files[i].panels) = 1
        /\ Finished =>
              /\ Len(writes) = args.n_samples
              /\ DOMAIN files = 0..(args.n_samples - 1)

C1_Witness ==
    /\ args.mode = "sample" /\ args.n_samples = 5 /\ args.batch_size = 2
    /\ Finished
    /\ Len(writes) = 5
    /\ DOMAIN files = 0..4

\* The main process has ended, or has written every file the run asks for.
MainHasFinishedWriting ==
    \/ pc[Main] \in {"Done", "Failed"}
    \/ Len(writes) >= args.n_samples
    \/ args.batch_size <= 0

\* C3 as stated: only the main process generates and writes, and no other
\* process gets past the point after sampling before the main process has
\* finished writing.
C3_OthersWaitForMainToFinish ==
    /\ \A k \in 1..Len(writes) : writes[k].by = Main
    /\ \A p \in Procs : (~IsMainProcess(p) /\ pc[p] = "Done") => MainHasFinishedWriting

\* C3 amended: only the main process creates the directory, draws latents and
\* writes files, so no index is written by two processes; no process starts
\* the generation before every process has reached the barrier in front of
\* it. (Nothing holds the other processes back after it.)
C3_OnlyMainWritesAfterBarrier ==
    /\ \A k \in 1..Len(writes) : writes[k].by = Main
    /\ dirs \subseteq {Main}
    /\ \A p \in Procs : ~IsMainProcess(p) => drawn[p] = << >> /\ samples[p] = << >>
    /\ \A j, k \in 1..Len(writes) :
          (writes[j].idx = writes[k].idx /\ j # k) => writes[j].by = writes[k].by
    /\ \A p \in Procs : pc[p] \in {"Sampling", "Done"} => arrived[107] = Procs

C3_Witness ==
    /\ num_processes = 2
    /\ \E p \in Procs : ~IsMainProcess(p) /\ pc[p] = "Done"
    /\ pc[Main] = "Sampling"
    /\ writes # << >>
    /\ samples[Main] # << >>

\* The state of the driver's state machine that a position of main() lies in.
DriverState(q) ==
    CASE q \in {"Uninitialized", "AtBarrier77", "AtBarrier92"} -> "Uninitialized"
      [] OTHER -> q

DriverOrder ==
    { <<"Uninitialized", "ModelsBuilt">>, <<"ModelsBuilt", "WeightsLoaded">>,
      <<"WeightsLoaded", "Sampling">>, <<"Sampling", "Done">> }
    \cup { << q, "Failed" >> : q \in {"Uninitialized", "ModelsBuilt", "WeightsLoaded", "Sampling"} }

CkptFits == ckpt.encoder = "ok" /\ ckpt.decoder = "ok"

C4_NothingBeforeWeights ==
    \A p \in Procs :
        /\ (p \in dirs \/ \E k \in 1..Len(writes) : writes[k].by = p
            \/ pc[p] \in {"WeightsLoaded", "Sampling", "Done"})
              => loaded[p] = {"encoder", "decoder"}
        /\ ~CkptFits =>
              /\ writes = << >> /\ files = << >> /\ dirs = {}
              /\ pc[p] \notin {"WeightsLoaded", "Sampling", "Done"}
              /\ pc[p] = "Failed" => failure[p].at \in {"parse_args", "load_encoder", "load_decoder"}

C4_InOrder ==
    \A p \in Procs :
        /\ DriverState(pc'[p]) # DriverState(pc[p])
              => << DriverState(pc[p]), DriverState(pc'[p]) >> \in DriverOrder
        /\ (pc[p] = "ModelsBuilt" /\ ~CkptFits /\ pc'[p] # pc[p]) => pc'[p] = "Failed"

\* C4: every process moves Uninitialized -> ModelsBuilt -> WeightsLoaded ->
\* Sampling -> Done (or to Failed); no file is written and no directory is
\* created by a process that has not loaded both state dicts; a checkpoint
\* that does not fit takes ModelsBuilt to Failed, with no file and no
\* Sampling.
C4_WeightsBeforeSampling == [] C4_NothingBeforeWeights /\ [][C4_InOrder]_vars

C4_Witness ==
    /\ ckpt.encoder = "ok" /\ ckpt.decoder = "mismatch"
    /\ args.mode = "sample" /\ args.n_samples = 2
    /\ \A p \in Procs : pc[p] = "Failed" /\ failure[p].at = "load_decoder"
                        /\ loaded[p] = {"encoder"}
    /\ writes = << >> /\ dirs = {}

\* C5 as stated: exactly the procedure the mode names is called, and a mode
\* outside the three fails in the sampling dispatch, which names the value.
C5_DispatchRejectsUnknownMode ==
    \A p \in Procs :
        /\ Cardinality(called[p]) <= 1
        /\ pc[p] \in {"Sampling", "Done"} => called[p] = {args.mode}
        /\ (args.mode \notin Choices /\ pc[p] = "Failed") =>
              /\ failure[p] = [at |-> "dispatch", names |-> args.mode]
              /\ called[p] = {}

\* C5 amended: exactly the procedure the mode names is called, never two; a
\* mode outside the three is rejected by the argument parser, which names the
\* value, before any model is built, so the dispatch never sees it, its
\* ValueError is never raised, and no procedure runs.
C5_ParserRejectsUnknownMode ==
    \A p \in Procs :
        /\ Cardinality(called[p]) <= 1
        /\ pc[p] \in {"Sampling", "Done"} => called[p] = {args.mode} /\ args.mode \in Choices
        /\ pc[p] \notin {"Sampling", "Done"} =>
              (called[p] = {} \/ (pc[p] = "Failed" /\ called[p] = {args.mode}))
        /\ failure[p].at # "dispatch"
        /\ args.mode \notin Choices =>
              /\ called[p] = {}
              /\ pc[p] \in {"Uninitialized", "Failed"}
              /\ pc[p] = "Failed" => failure[p] = [at |-> "parse_args", names |-> args.mode]
              /\ arrived[77] = {} /\ writes = << >> /\ dirs = {}

C5_Witness ==
    /\ args.mode \notin Choices
    /\ \A p \in Procs : pc[p] = "Failed" /\ failure[p].at = "parse_args"
    /\ num_processes = 2

\* The latents drawn for the sample that file i shows, and the latent that
\* panel j of file i decodes.
LatentsOf(i) == drawn[Main][i + 1]
PanelLatent(i, j) == files[i].panels[j].latent

\* The j-th of n evenly spaced points from lo to hi, both ends included
\* (n >= 2).
EvenlySpaced(lo, hi, j, n) == Rat(lo * (n - j) + hi * (j - 1), n - 1)

\* z1 * t + z2 * (1 - t)
Mix(z1, z2, t) ==
    [c \in 1..Len(z1) |-> RAdd(RMul(z1[c], t), RMul(z2[c], RSub(IntRat(1), t)))]

FramesPerFile == IF args.mode = "interpolate" THEN args.n_interpolate ELSE args.n_traverse

\* C6: in modes interpolate and traverse the file index advances once per
\* sample: the writes are 0, 1, 2, ..., a finished run has written exactly
\* n_samples files 0..n_samples-1, and file i holds the n_interpolate
\* (n_traverse) frames of sample i, all in one row, in frame order.
C6_OneFilePerSample ==
    args.mode \in {"interpolate", "traverse"} =>
        /\ WritesCountUp
        /\ Len(writes) <= args.n_samples
        /\ Finished => Len(writes) = args.n_samples /\ DOMAIN files = 0..(args.n_samples - 1)
        /\ \A i \in DOMAIN files :
              /\ Len(files[i].panels) = FramesPerFile
              /\ files[i].nrows = 1 /\ files[i].ncols = FramesPerFile
              /\ \A j \in 1..(FramesPerFile - 1) :
                    IF args.mode = "interpolate"
                    THEN PanelLatent(i, j) =
                            Mix(LatentsOf(i)[1], LatentsOf(i)[2],
                                EvenlySpaced(0, 1, j, FramesPerFile))
                    ELSE LET k == IndexOf(args.traverse_dim, conf.z_dim)
                         IN  /\ PanelLatent(i, j)[k].n * PanelLatent(i, j + 1)[k].d
                                  < PanelLatent(i, j + 1)[k].n * PanelLatent(i, j)[k].d
                             /\ \A c \in 1..conf.z_dim :
                                   c # k => PanelLatent(i, j)[c] = LatentsOf(i)[1][c]

C6_Witness ==
    /\ args.mode = "interpolate" /\ args.n_samples = 3 /\ args.batch_size = 2
    /\ args.n_interpolate = 3
    /\ Finished
    /\ DOMAIN files = 0..2
    /\ \A i \in 0..2 : Len(files[i].panels) = 3

\* C9 as stated: the frames of a sample decode z1 * t + z2 * (1 - t) for
\* n_interpolate evenly spaced t in increasing order, the first frame decodes
\* z2 and the last frame decodes z1, for every n_interpolate >= 1.
C9_EndpointsForEveryCount ==
    args.mode = "interpolate" =>
        \A i \in DOMAIN files :
            LET n == args.n_interpolate
                z1 == LatentsOf(i)[1]
                z2 == LatentsOf(i)[2]
            IN  /\ Len(files[i].panels) = n
                /\ PanelLatent(i, 1) = z2
                /\ PanelLatent(i, n) = z1
                /\ n >= 2 => \A j \in 1..n :
                                PanelLatent(i, j) = Mix(z1, z2, EvenlySpaced(0, 1, j, n))

\* C9 amended: the first frame decodes z2 for every n_interpolate >= 1; for
\* n_interpolate >= 2 the frames decode z1 * t + z2 * (1 - t) at the evenly
\* spaced t = (j-1)/(n-1) and the last frame decodes z1; for n_interpolate = 1
\* the only frame is t = 0, which decodes z2 and not z1.
C9_EndpointsFromTwoFrames ==
    args.mode = "interpolate" =>
        \A i \in DOMAIN files :
            LET n == args.n_interpolate
                z1 == LatentsOf(i)[1]
                z2 == LatentsOf(i)[2]
            IN  /\ Len(files[i].panels) = n
                /\ PanelLatent(i, 1) = z2
                /\ n >= 2 =>
                      /\ PanelLatent(i, n) = z1
                      /\ \A j \in 1..n :
                            PanelLatent(i, j) = Mix(z1, z2, EvenlySpaced(0, 1, j, n))

C9_Witness ==
    /\ args.mode = "interpolate" /\ args.n_interpolate = 3
    /\ \E i \in DOMAIN files :
          /\ LatentsOf(i)[1] # LatentsOf(i)[2]
          /\ PanelLatent(i, 1) = LatentsOf(i)[2]
          /\ PanelLatent(i, 3) = LatentsOf(i)[1]
          /\ PanelLatent(i, 2) # LatentsOf(i)[1] /\ PanelLatent(i, 2) # LatentsOf(i)[2]

\* C10: in mode traverse, replica j of sample i keeps every coordinate of the
\* base latent of sample i except traverse_dim, and its coordinate
\* traverse_dim is the j-th of n_traverse evenly spaced values from
\* -traverse_range to +traverse_range, ends included; for n_traverse = 1 it
\* is -traverse_range.
C10_TraverseTouchesOneCoordinate ==
    args.mode = "traverse" =>
        \A i \in DOMAIN files :
            LET n == args.n_traverse
                r == args.traverse_range
                k == IndexOf(args.traverse_dim, conf.z_dim)
                base == LatentsOf(i)[1]
            IN  /\ k \in 1..conf.z_dim
                /\ Len(files[i].panels) = n
                /\ \A j \in 1..n :
                      /\ Len(PanelLatent(i, j)) = conf.z_dim
                      /\ \A c \in 1..conf.z_dim : c # k => PanelLatent(i, j)[c] = base[c]
                      /\ PanelLatent(i, j)[k] =
                            IF n = 1 THEN IntRat(-r) ELSE EvenlySpaced(-r, r, j, n)

C10_Witness ==
    /\ args.mode = "traverse" /\ args.n_traverse = 3 /\ args.traverse_range = 2
    /\ args.traverse_dim = -1 /\ args.batch_size = 2
    /\ 1 \in DOMAIN files
    /\ LatentsOf(0)[1] # LatentsOf(1)[1]
    /\ PanelLatent(1, 1) # LatentsOf(1)[1]
    /\ PanelLatent(1, 3)[conf.z_dim] = IntRat(2)
    /\ PanelLatent(1, 3)[1] = LatentsOf(1)[1][1]

-----------------------------------------------------------------------------
(* Tensor shapes through the layers of models/simple_cnn.py *)

\* The spatial size of the image _test() feeds the encoder.
CanonicalSize == 64

RECURSIVE Pow2(_)
Pow2(k) == IF k = 0 THEN 1 ELSE 2 * Pow2(k - 1)

RECURSIVE Prod(_)
Prod(sh) == IF sh = << >> THEN 1 ELSE Head(sh) * Prod(Tail(sh))

Layer(kind, a, b, k, s, pad) == [kind |-> kind, a |-> a, b |-> b, k |-> k, s |-> s, pad |-> pad]

Conv2d(in, out, k, s, pad) == Layer("Conv2d", in, out, k, s, pad)
ConvTranspose2d(in, out, k, s, pad) == Layer("ConvTranspose2d", in, out, k, s, pad)
BatchNorm2d(n) == Layer("BatchNorm2d", n, n, 0, 0, 0)
BatchNorm1d(n) == Layer("BatchNorm1d", n, n, 0, 0, 0)
Linear(in, out) == Layer("Linear", in, out, 0, 0, 0)
Identity == Layer("Identity", 0, 0, 0, 0, 0)
LeakyReLU == Layer("LeakyReLU", 0, 0, 0, 0, 0)
Flatten == Layer("Flatten", 0, 0, 0, 0, 0)
Tanh == Layer("Tanh", 0, 0, 0, 0, 0)

Shape(sh) == [ok |-> TRUE, shape |-> sh]
ShapeError == [ok |-> FALSE, shape |-> << >>]

\* The shape a layer returns for an input of shape x.shape, or the error it
\* raises; batch norm in training mode refuses a single value per channel.
Apply(l, x, training) ==
    LET sh == x.shape
        rank == Len(sh)
    IN  IF ~x.ok THEN ShapeError
        ELSE CASE l.kind = "Conv2d" ->
                    IF rank = 4 /\ sh[2] = l.a
                       /\ sh[3] + 2 * l.pad >= l.k /\ sh[4] + 2 * l.pad >= l.k
                    THEN Shape(<< sh[1], l.b,
                                  ((sh[3] + 2 * l.pad - l.k) \div l.s) + 1,
                                  ((sh[4] + 2 * l.pad - l.k) \div l.s) + 1 >>)
                    ELSE ShapeError
               [] l.kind = "ConvTranspose2d" ->
                    IF rank = 4 /\ sh[2] = l.a
                    THEN Shape(<< sh[1], l.b,
                                  (sh[3] - 1) * l.s - 2 * l.pad + l.k,
                                  (sh[4] - 1) * l.s - 2 * l.pad + l.k >>)
                    ELSE ShapeError
               [] l.kind = "BatchNorm2d" ->
                    IF rank = 4 /\ sh[2] = l.a
                       /\ (training => sh[1] * sh[3] * sh[4] > 1)
                    THEN x ELSE ShapeError
               [] l.kind = "BatchNorm1d" ->
                    IF rank = 2 /\ sh[2] = l.a /\ (training => sh[1] > 1)
                    THEN x ELSE ShapeError
               [] l.kind = "Linear" ->
                    IF rank >= 1 /\ sh[rank] = l.a
                    THEN Shape([sh EXCEPT ![rank] = l.b]) ELSE ShapeError
               [] l.kind = "Flatten" ->
                    IF rank >= 2 THEN Shape(<< sh[1], Prod(Tail(sh)) >>) ELSE x
               [] OTHER -> x

\* nn.Sequential: the layers in order.
RECURSIVE Sequential(_, _, _)
Sequential(ls, x, training) ==
    IF ls = << >> THEN x
    ELSE Sequential(Tail(ls), Apply(Head(ls), x, training), training)

\* A variant whose last convolution pads by 1.
EncoderInitPadded(c) ==
    LET m == c.dim_mults
        n == Len(m)
        cur_dim == c.dim * m[n]
        fc == << Flatten, Linear(cur_dim, cur_dim \div 2), BatchNorm1d(cur_dim \div 2),
                 LeakyReLU, Linear(cur_dim \div 2, c.z_dim) >>
    IN  IF n = 0 THEN [ok |-> FALSE]
        ELSE [ok |-> TRUE,
              first_conv |-> << Conv2d(c.in_dim, c.dim * m[1], 4, 2, 1) >>,
              layers |-> [i \in 1..(n - 1) |->
                            << IF i > 1 /\ c.with_bn THEN BatchNorm2d(c.dim * m[i]) ELSE Identity,
                               LeakyReLU,
                               Conv2d(c.dim * m[i], c.dim * m[i + 1], 4, 2, 1) >>],
              last_conv |-> << IF c.with_bn THEN BatchNorm2d(c.dim * m[n]) ELSE Identity,
                               LeakyReLU,
                               Conv2d(c.dim * m[n], c.dim * m[n], 4, 1, 1) >>,
              fc_mean |-> fc,
              fc_logvar |-> fc]

\* Encoder.__init__: the module tree of a configuration; an empty dim_mults
\* raises IndexError at dim_mults[0].
EncoderInit(c) ==
    LET m == c.dim_mults
        n == Len(m)
        cur_dim == c.dim * m[n]
        fc == << Flatten, Linear(cur_dim, cur_dim \div 2), BatchNorm1d(cur_dim \div 2),
                 LeakyReLU, Linear(cur_dim \div 2, c.z_dim) >>
    IN  IF n = 0 THEN [ok |-> FALSE]
        ELSE [ok |-> TRUE,
              first_conv |-> << Conv2d(c.in_dim, c.dim * m[1], 4, 2, 1) >>,
              layers |-> [i \in 1..(n - 1) |->
                            << IF i > 1 /\ c.with_bn THEN BatchNorm2d(c.dim * m[i]) ELSE Identity,
                               LeakyReLU,
                               Conv2d(c.dim * m[i], c.dim * m[i + 1], 4, 2, 1) >>],
              last_conv |-> << IF c.with_bn THEN BatchNorm2d(c.dim * m[n]) ELSE Identity,
                               LeakyReLU,
                               Conv2d(c.dim * m[n], c.dim * m[n], 4, 1, 0) >>,
              fc_mean |-> fc,
              fc_logvar |-> fc]

\* for layer in self.layers: X = layer(X)
RECURSIVE Layers(_, _, _)
Layers(blocks, x, training) ==
    IF blocks = << >> THEN x
    ELSE Layers(Tail(blocks), Sequential(Head(blocks), x, training), training)

\* Encoder.forward
EncoderForward(enc, X, training) ==
    LET x1 == Sequential(enc.first_conv, Shape(X), training)
        x2 == Layers(enc.layers, x1, training)
        x3 == Sequential(enc.last_conv, x2, training)
        mean == Sequential(enc.fc_mean, x3, training)
        logvar == Sequential(enc.fc_logvar, x3, training)
    IN  [ok |-> mean.ok /\ logvar.ok, features |-> x3.shape,
         mean |-> mean.shape, logvar |-> logvar.shape]

\* Decoder.__init__
DecoderInit(c) ==
    LET m == c.dim_mults
        n == Len(m)
    IN  IF n = 0 THEN [ok |-> FALSE]
        ELSE [ok |-> TRUE,
              first_conv |-> << ConvTranspose2d(c.z_dim, c.dim * m[1], 4, 1, 0) >>,
              layers |-> [i \in 1..(n - 1) |->
                            << IF c.with_bn THEN BatchNorm2d(c.dim * m[i]) ELSE Identity,
                               LeakyReLU,
                               ConvTranspose2d(c.dim * m[i], c.dim * m[i + 1], 4, 2, 1) >>],
              last_conv |-> << IF c.with_bn THEN BatchNorm2d(c.dim * m[n]) ELSE Identity,
                               LeakyReLU,
                               ConvTranspose2d(c.dim * m[n], c.out_dim, 4, 2, 1) >>,
              act |-> << IF c.with_tanh THEN Tanh ELSE Identity >>]

\* A variant without the view of a rank-2 latent.
DecoderForwardNoView(dec, X, training) ==
    LET x1 == Sequential(dec.first_conv, Shape(X), training)
        x2 == Layers(dec.layers, x1, training)
        x3 == Sequential(dec.last_conv, x2, training)
        x4 == Sequential(dec.act, x3, training)
    IN  [ok |-> x4.ok, image |-> x4.shape]

\* Decoder.forward: a rank-2 latent is viewed as [batch, width, 1, 1] first.
DecoderForward(dec, X, training) ==
    LET x0 == IF Len(X) = 2 THEN << X[1], X[2], 1, 1 >> ELSE X
        x1 == Sequential(dec.first_conv, Shape(x0), training)
        x2 == Layers(dec.layers, x1, training)
        x3 == Sequential(dec.last_conv, x2, training)
        x4 == Sequential(dec.act, x3, training)
    IN  [ok |-> x4.ok, image |-> x4.shape]

RECURSIVE SeqsUpTo(_, _)
SeqsUpTo(S, n) ==
    IF n = 0 THEN { << >> }
    ELSE LET shorter == SeqsUpTo(S, n - 1)
         IN  shorter \cup { Append(q, e) : q \in { r \in shorter : Len(r) = n - 1 }, e \in S }

MultsSpace == SeqsUpTo({1, 2}, MaxMults)

EncoderConfigs ==
    [z_dim : {2, 3}, in_dim : {1, 3}, dim : {2, 4}, dim_mults : MultsSpace,
     with_bn : BOOLEAN]

DecoderConfigs ==
    [z_dim : {2, 3}, out_dim : {1, 3}, dim : {2}, dim_mults : MultsSpace,
     with_bn : BOOLEAN, with_tanh : BOOLEAN]

ImageSizes == { 4 * Pow2(k) : k \in 1..(MaxMults + 1) } \cup { CanonicalSize }

ImageShapes == { << b, c, hw, hw >> : b \in 1..MaxNetBatch, c \in {1, 3}, hw \in ImageSizes }

LatentShapes ==
    { << b, w >> : b \in 1..MaxNetBatch, w \in {2, 3} }
    \cup { << b, w, hw, hw >> : b \in 1..MaxNetBatch, w \in {2, 3}, hw \in {1, 2} }

\* The driver at rest, for the specifications of the pure parts.
DriverIdle ==
    /\ args = [mode |-> "sample", seed |-> 0, n_samples |-> 0, batch_size |-> 1,
               n_interpolate |-> 1, n_traverse |-> 1, traverse_range |-> 1,
               traverse_dim |-> 0]
    /\ conf = [z_dim |-> ZDim]
    /\ ckpt = [encoder |-> "ok", decoder |-> "ok"]
    /\ num_processes = 1
    /\ pc = [p \in Procs |-> "Uninitialized"]
    /\ failure = [p \in Procs |-> NoFailure]
    /\ arrived = [b \in Barriers |-> {}]
    /\ loaded = [p \in Procs |-> {}]
    /\ called = [p \in Procs |-> {}]
    /\ rng = [p \in Procs |-> 0]
    /\ idx = [p \in Procs |-> 0]
    /\ folds = [p \in Procs |-> << >>]
    /\ samples = [p \in Procs |-> << >>]
    /\ drawn = [p \in Procs |-> << >>]
    /\ dirs = {}
    /\ files = << >>
    /\ writes = << >>

InitNet == DriverIdle /\ net = [op |-> "none"] /\ am = [op |-> "none"]

\* enc = Encoder(...); enc(x), freshly built (training) or after .eval()
EncoderCall ==
    /\ net.op = "none"
    /\ \E c \in EncoderConfigs, x \in ImageShapes, training \in BOOLEAN :
          LET enc == EncoderInit(c)
          IN  net' = [op |-> "Encoder", cfg |-> c, x |-> x, training |-> training,
                      built |-> enc.ok,
                      out |-> IF enc.ok THEN EncoderForward(enc, x, training)
                              ELSE [ok |-> FALSE, features |-> << >>,
                                    mean |-> << >>, logvar |-> << >>]]
    /\ UNCHANGED <<driverVars, am>>

\* dec = Decoder(...); dec(z)
DecoderCall ==
    /\ net.op = "none"
    /\ \E c \in DecoderConfigs, z \in LatentShapes, training \in BOOLEAN :
          LET dec == DecoderInit(c)
          IN  net' = [op |-> "Decoder", cfg |-> c, x |-> z, training |-> training,
                      built |-> dec.ok,
                      out |-> IF dec.ok THEN DecoderForward(dec, z, training)
                              ELSE [ok |-> FALSE, image |-> << >>]]
    /\ UNCHANGED <<driverVars, am>>

NextNet == EncoderCall \/ DecoderCall

SpecNet == InitNet /\ [][NextNet]_vars

\* folds = amortize(N, B)
AmortizeCall ==
    /\ am.op = "none"
    /\ \E n \in 0..MaxAmortizeN, b \in 0..MaxAmortizeB :
          am' = [op |-> "amortize", n |-> n, b |-> b, out |-> Amortize(n, b)]
    /\ UNCHANGED <<driverVars, net>>

NextAmortize == AmortizeCall

SpecAmortize == InitNet /\ [][NextAmortize]_vars

-----------------------------------------------------------------------------
(* Properties of the pure parts *)

RECURSIVE Sum(_)
Sum(q) == IF q = << >> THEN 0 ELSE Head(q) + Sum(Tail(q))

\* C2: for N >= 0 and B > 0, amortize(N, B) is a sequence of positive
\* integers, each at most B, that sums to N: floor(N/B) chunks equal to B,
\* then one chunk N mod B unless that is 0; amortize(7,3) = [3,3,1],
\* amortize(6,3) = [3,3], amortize(0,5) = [].
C2_AmortizeChunks ==
    (am.op = "amortize" /\ am.n >= 0 /\ am.b > 0) =>
        LET q == am.out.sizes
            full == am.n \div am.b
            rest == am.n % am.b
        IN  /\ am.out.ok
            /\ Sum(q) = am.n
            /\ \A i \in 1..Len(q) : 0 < q[i] /\ q[i] <= am.b
            /\ Len(q) = full + (IF rest = 0 THEN 0 ELSE 1)
            /\ \A i \in 1..full : q[i] = am.b
            /\ rest # 0 => q[Len(q)] = rest
            /\ (am.n = 7 /\ am.b = 3) => q = << 3, 3, 1 >>
            /\ (am.n = 6 /\ am.b = 3) => q = << 3, 3 >>
            /\ (am.n = 0 /\ am.b = 5) => q = << >>

C2_Witness ==
    /\ am.op = "amortize" /\ am.n = 7 /\ am.b = 3
    /\ am.out.ok /\ am.out.sizes = << 3, 3, 1 >>

Last(q) == q[Len(q)]

\* The mean, the logvar and the feature map the claim expects of an encoder
\* call.
EncoderCollapses ==
    /\ net.out.ok
    /\ net.out.features = << net.x[1], net.cfg.dim * Last(net.cfg.dim_mults), 1, 1 >>
    /\ net.out.mean = << net.x[1], net.cfg.z_dim >>
    /\ net.out.logvar = << net.x[1], net.cfg.z_dim >>

\* An encoder call on an image of the canonical size with the channels the
\* configuration names, the configuration being valid (dim_mults not empty).
CanonicalEncoderCall ==
    /\ net.op = "Encoder"
    /\ net.built
    /\ net.x = << net.x[1], net.cfg.in_dim, CanonicalSize, CanonicalSize >>

\* C7 as stated: for any valid configuration Encoder.forward on a 64x64 image
\* returns mean and logvar of shape [batch, z_dim], the feature map being 1x1.
C7_EncoderAnyConfiguration == CanonicalEncoderCall => EncoderCollapses

\* C7 amended: that holds for the configurations with four multipliers, the
\* module being in evaluation mode or the batch holding at least two images;
\* with any other number of multipliers the 64x64 image does not reach 1x1
\* and forward raises, and so does a batch of one in training mode.
C7_EncoderFourMultipliers ==
    CanonicalEncoderCall =>
        /\ (Len(net.cfg.dim_mults) = 4 /\ (~net.training \/ net.x[1] >= 2)) => EncoderCollapses
        /\ Len(net.cfg.dim_mults) # 4 => ~net.out.ok /\ net.out.features # << net.x[1], net.cfg.dim * Last(net.cfg.dim_mults), 1, 1 >>
        /\ (net.training /\ net.x[1] = 1) => ~net.out.ok

C7_Witness ==
    /\ CanonicalEncoderCall
    /\ Len(net.cfg.dim_mults) = 4
    /\ ~net.training
    /\ net.cfg.z_dim = 3 /\ net.x[1] = 2
    /\ net.out.ok /\ net.out.mean = << 2, 3 >> /\ net.out.logvar = << 2, 3 >>
    /\ net.out.features[3] = 1 /\ net.out.features[4] = 1

RECURSIVE Reverse(_)
Reverse(q) == IF q = << >> THEN << >> ELSE Append(Reverse(Tail(q)), Head(q))

\* The encoder configuration that mirrors a decoder configuration.
Mirrored(c) ==
    [z_dim |-> c.z_dim, in_dim |-> c.out_dim, dim |-> c.dim,
     dim_mults |-> Reverse(c.dim_mults), with_bn |-> c.with_bn]

\* C8: for a valid configuration Decoder.forward on a latent [batch, z_dim]
\* or [batch, z_dim, 1, 1] returns an image of out_dim channels and spatial
\* size 4 * 2^len(dim_mults), and the encoder with the mirrored dim_mults
\* takes an image of that size to a 1x1 feature map.
C8_DecoderRestoresEncoderInput ==
    (/\ net.op = "Decoder"
     /\ net.built
     /\ net.x \in { << net.x[1], net.cfg.z_dim >>, << net.x[1], net.cfg.z_dim, 1, 1 >> }) =>
        LET size == 4 * Pow2(Len(net.cfg.dim_mults))
            back == EncoderForward(EncoderInit(Mirrored(net.cfg)), net.out.image, net.training)
        IN  /\ net.out.ok
            /\ net.out.image = << net.x[1], net.cfg.out_dim, size, size >>
            /\ back.features = << net.x[1], net.cfg.dim * Head(net.cfg.dim_mults), 1, 1 >>

C8_Witness ==
    /\ net.op = "Decoder" /\ net.built
    /\ Len(net.cfg.dim_mults) = 4
    /\ net.x = << 2, net.cfg.z_dim >>
    /\ net.out.ok
    /\ net.out.image = << 2, net.cfg.out_dim, CanonicalSize, CanonicalSize >>

====
